---------------------------- MODULE Spec2Model ----------------------------
(***************************************************************************)
(* OxfordBusDisplay: the e-paper departure board                           *)
(* (src/oxontime_epaper_landscape.py).                                     *)
(*                                                                         *)
(* Text is a sequence of one-character strings, so that strip, lower,      *)
(* split, int and str are computed and not assumed.  Optional[int] is a    *)
(* sequence of length at most one: None is << >>, the integer n is <<n>>.  *)
(* A datetime is the number of milliseconds since midnight of the current  *)
(* day (the microsecond field at millisecond resolution); the date itself  *)
(* only matters through the "+ 1 day" of minutes_until_clock.              *)
(***************************************************************************)
EXTENDS Integers, Sequences, FiniteSets, TLC

VARIABLES
    WALK_MIN,         \* module global, line 51
    FAST_WINDOW_MIN,  \* module global, line 55
    QUIET_START,      \* module global, line 57
    QUIET_END,        \* module global, line 58
    MODE,             \* module global, line 50
    clock,            \* the wall clock dt.datetime.now() reads
    pc,               \* where main() stands
    now,              \* the last value read from the clock
    quiet,            \* the last result of in_quiet_hours
    resp,             \* the feed's answer to this cycle's request
    calls3,           \* fetch_calls' three slots
    catch_idx,        \* choose_catchable's result (0-based, as in the code)
    eta_out,          \* the last result of minutes_only: <<label, minutes>>
    sleep_s,          \* the argument of the last time.sleep
    exc,              \* the exception propagating out of main, None if none
    ended_by,         \* the exception that left the while loop, None if none
    epd,              \* the display sink: power state and bookkeeping
    frame,            \* the last frame handed to epd.display
    renders,          \* frames handed to epd.display in the current cycle
    cycles            \* iterations of the while loop begun

vars == <<WALK_MIN, FAST_WINDOW_MIN, QUIET_START, QUIET_END, MODE, clock, pc,
          now, quiet, resp, calls3, catch_idx, eta_out, sleep_s, exc, ended_by, epd,
          frame, renders, cycles>>

config == <<WALK_MIN, FAST_WINDOW_MIN, QUIET_START, QUIET_END, MODE>>

----------------------------------------------------------------------------
(* Configuration defaults.                                                 *)

STOP == "340000022GEO"
DEFAULT_WALK_MIN == 5
DAY_REFRESH == 180
FAST_REFRESH == 60
DEFAULT_FAST_WINDOW_MIN == 10
DEFAULT_QUIET_START == 22
DEFAULT_QUIET_END == 6
QUIET_REFRESH == 1800

----------------------------------------------------------------------------
(* Optional values and datetimes.                                          *)

None == << >>
Some(n) == <<n>>

MsPerMinute == 60 * 1000
MsPerHour == 60 * MsPerMinute
MsPerDay == 24 * MsPerHour

\* datetime(..., hour=h, minute=m, second=s, microsecond=ms * 1000) of today
DateTime(h, m, s, ms) == h * MsPerHour + m * MsPerMinute + s * 1000 + ms

\* datetime.hour
Hour(t) == (t % MsPerDay) \div MsPerHour

Max(a, b) == IF a >= b THEN a ELSE b
Min(a, b) == IF a <= b THEN a ELSE b

----------------------------------------------------------------------------
(* Python's str methods, on sequences of characters.                       *)

Digits == <<"0", "1", "2", "3", "4", "5", "6", "7", "8", "9">>

IsSpace(c) == c \in {" ", "\t", "\n"}

IsDigit(c) == \E i \in 1..10 : Digits[i] = c

DigitValue(c) == (CHOOSE i \in 1..10 : Digits[i] = c) - 1

\* str.lower on one character
LowerChar(c) ==
    CASE c = "M" -> "m"
      [] c = "I" -> "i"
      [] c = "N" -> "n"
      [] c = "S" -> "s"
      [] c = "D" -> "d"
      [] c = "U" -> "u"
      [] c = "E" -> "e"
      [] OTHER -> c

\* str.lower
Lower(s) == [i \in 1..Len(s) |-> LowerChar(s[i])]

RECURSIVE LStrip(_)
LStrip(s) == IF s # << >> /\ IsSpace(Head(s)) THEN LStrip(Tail(s)) ELSE s

RECURSIVE RStrip(_)
RStrip(s) ==
    IF s # << >> /\ IsSpace(s[Len(s)]) THEN RStrip(SubSeq(s, 1, Len(s) - 1)) ELSE s

\* str.strip
Strip(s) == RStrip(LStrip(s))

\* sub in s
Contains(sub, s) ==
    \E i \in 1..(Len(s) - Len(sub) + 1) : SubSeq(s, i, i + Len(sub) - 1) = sub

\* s.split()[0] of a stripped, non-empty s: the characters before the first space
RECURSIVE FirstToken(_)
FirstToken(s) ==
    IF s = << >> \/ IsSpace(Head(s)) THEN << >> ELSE <<Head(s)>> \o FirstToken(Tail(s))

\* s.split(sep) for a one-character sep: the parts, empty ones included
RECURSIVE SplitOn(_, _)
SplitOn(sep, s) ==
    IF \A i \in 1..Len(s) : s[i] # sep
    THEN <<s>>
    ELSE LET k == CHOOSE i \in 1..Len(s) : s[i] = sep /\ \A j \in 1..(i - 1) : s[j] # sep
         IN  <<SubSeq(s, 1, k - 1)>> \o SplitOn(sep, SubSeq(s, k + 1, Len(s)))

\* the value of a string of decimal digits
RECURSIVE DigitsValue(_)
DigitsValue(s) ==
    IF s = << >> THEN 0
    ELSE 10 * DigitsValue(SubSeq(s, 1, Len(s) - 1)) + DigitValue(s[Len(s)])

\* int(s): surrounding whitespace and one sign are accepted; None stands for
\* the ValueError every caller catches
ParseInt(s) ==
    LET t == Strip(s)
        signed == t # << >> /\ Head(t) \in {"-", "+"}
        body == IF signed THEN Tail(t) ELSE t
    IN  IF body = << >> \/ \E i \in 1..Len(body) : ~IsDigit(body[i])
        THEN None
        ELSE Some(IF signed /\ Head(t) = "-" THEN 0 - DigitsValue(body)
                  ELSE DigitsValue(body))

RECURSIVE NatStr(_)
NatStr(n) ==
    IF n < 10 THEN <<Digits[n + 1]>> ELSE NatStr(n \div 10) \o <<Digits[(n % 10) + 1]>>

\* str(n)
Str(n) == IF n < 0 THEN <<"-">> \o NatStr(0 - n) ELSE NatStr(n)

----------------------------------------------------------------------------
(* Time and parsing helpers, lines 87-163.                                 *)

in_quiet_hours_strict(t) ==
    IF QUIET_START < QUIET_END
    THEN QUIET_START < Hour(t) /\ Hour(t) < QUIET_END
    ELSE Hour(t) > QUIET_START \/ Hour(t) < QUIET_END

in_quiet_hours(t) ==
    IF QUIET_START < QUIET_END
    THEN QUIET_START <= Hour(t) /\ Hour(t) < QUIET_END
    ELSE Hour(t) >= QUIET_START \/ Hour(t) < QUIET_END

parse_minutes(display_time) ==
    LET t == Lower(Strip(display_time))
    IN  IF t = << >> THEN None
        ELSE IF Contains(<<"m", "i", "n">>, t) THEN ParseInt(FirstToken(t))
        ELSE None

minutes_until_clock_no_wrap(hhmm, t) ==
    LET parts == SplitOn(":", hhmm)
    IN  IF Len(parts) # 2 THEN None
        ELSE LET hh == ParseInt(parts[1])
                 mm == ParseInt(parts[2])
             IN  IF hh = None \/ mm = None THEN None
                 ELSE IF hh[1] \notin 0..23 \/ mm[1] \notin 0..59 THEN None
                 ELSE LET target == DateTime(hh[1], mm[1], 0, 0)
                      IN  Some(Max(0, (target - t) \div MsPerMinute))

minutes_until_clock(hhmm, t) ==
    LET parts == SplitOn(":", hhmm)
    IN  IF Len(parts) # 2 THEN None
        ELSE LET hh == ParseInt(parts[1])
                 mm == ParseInt(parts[2])
             IN  IF hh = None \/ mm = None THEN None
                 ELSE IF hh[1] \notin 0..23 \/ mm[1] \notin 0..59 THEN None
                 ELSE LET target == DateTime(hh[1], mm[1], 0, 0)
                          target2 == IF target < t THEN target + MsPerDay ELSE target
                      IN  Some(Max(0, (target2 - t) \div MsPerMinute))

\* "99+" if eta > 99 else str(eta)
Label(eta) == IF eta > 99 THEN <<"9", "9", "+">> ELSE Str(eta)

Dashes == <<"-", "-">>

minutes_only_clamped(call, t) ==
    LET disp == Strip(call.display_time)
        eta == parse_minutes(disp)
    IN  IF disp = << >> THEN <<Dashes, None>>
        ELSE IF eta # None THEN <<Label(eta[1]), Some(Min(eta[1], 99))>>
        ELSE IF Contains(<<":">>, disp) /\ minutes_until_clock(disp, t) # None
             THEN <<Label(minutes_until_clock(disp, t)[1]), minutes_until_clock(disp, t)>>
        ELSE <<Dashes, None>>

minutes_only(call, t) ==
    LET disp == Strip(call.display_time)
        eta == parse_minutes(disp)
    IN  IF disp = << >> THEN <<Dashes, None>>
        ELSE IF eta # None THEN <<Label(eta[1]), eta>>
        ELSE IF Contains(<<":">>, disp) /\ minutes_until_clock(disp, t) # None
             THEN <<Label(minutes_until_clock(disp, t)[1]), minutes_until_clock(disp, t)>>
        ELSE <<Dashes, None>>

\* the for loop of choose_catchable from position i (1-based) on; best is
\* None or <<best_idx, best_eta>>
RECURSIVE catchable_scan_late_ties(_, _, _, _)
catchable_scan_late_ties(calls, t, i, best) ==
    IF i > Len(calls) THEN best
    ELSE LET eta == minutes_only(calls[i], t)[2]
         IN  IF eta # None /\ eta[1] >= WALK_MIN /\ (best = None \/ eta[1] <= best[2])
             THEN catchable_scan_late_ties(calls, t, i + 1, <<i - 1, eta[1]>>)
             ELSE catchable_scan_late_ties(calls, t, i + 1, best)

RECURSIVE catchable_scan(_, _, _, _)
catchable_scan(calls, t, i, best) ==
    IF i > Len(calls) THEN best
    ELSE LET eta == minutes_only(calls[i], t)[2]
         IN  IF eta # None /\ eta[1] >= WALK_MIN /\ (best = None \/ eta[1] < best[2])
             THEN catchable_scan(calls, t, i + 1, <<i - 1, eta[1]>>)
             ELSE catchable_scan(calls, t, i + 1, best)

choose_catchable_late_ties(calls, t) ==
    LET best == catchable_scan_late_ties(calls, t, 1, None)
    IN  IF best # None THEN best[1] ELSE 0

\* t is the value its own dt.datetime.now() returns
choose_catchable(calls, t) ==
    LET best == catchable_scan(calls, t, 1, None)
    IN  IF best # None THEN best[1] ELSE 0

choose_sleep_seconds_strict(calls, idx, t) ==
    IF calls = << >> THEN DAY_REFRESH
    ELSE LET eta == minutes_only(calls[Min(idx, Len(calls) - 1) + 1], t)[2]
         IN  IF eta # None /\ eta[1] < FAST_WINDOW_MIN THEN FAST_REFRESH ELSE DAY_REFRESH

\* t is the value its own dt.datetime.now() returns
choose_sleep_seconds(calls, idx, t) ==
    IF calls = << >> THEN DAY_REFRESH
    ELSE LET eta == minutes_only(calls[Min(idx, Len(calls) - 1) + 1], t)[2]
         IN  IF eta # None /\ eta[1] <= FAST_WINDOW_MIN THEN FAST_REFRESH ELSE DAY_REFRESH

----------------------------------------------------------------------------
(* The feed, lines 169-178.  A JSON value is a record with its kind: a     *)
(* mapping ("map"), or anything else ("list", "str").  A response is the   *)
(* transport's outcome and the body; a body of kind "invalid" is not JSON. *)

Call(text) == [kind |-> "map", display_time |-> text]

\* {}: a call without display_time, which call.get("display_time") or "" reads as ""
EmptyCall == Call(<< >>)

NotAMapping == [kind |-> "str", display_time |-> << >>]

StopObj(calls) == [kind |-> "map", calls |-> calls]

Body(kind, items) == [kind |-> kind, items |-> items]

Response(transport, body) == [transport |-> transport, body |-> body]

NoResponse == Response("none", Body("none", << >>))

Returned(calls) == [raised |-> None, calls3 |-> calls]

Raised(e) == [raised |-> Some(e), calls3 |-> << >>]

\* calls3 = calls[:3], then padded with {} to three
FirstThree(calls) ==
    [i \in 1..3 |-> IF i <= Len(calls) THEN calls[i] ELSE EmptyCall]

fetch_calls(r) ==
    IF r.transport # "ok" THEN Raised("RequestException")
    ELSE IF r.body.kind = "invalid" THEN Raised("ValueError")
    ELSE IF r.body.kind # "map" THEN Raised("AttributeError")
    ELSE LET data == r.body.items
             hit == {i \in 1..Len(data) : data[i].key = STOP}
         IN  IF hit = {} /\ data = << >> THEN Raised("StopIteration")
             ELSE LET stop_obj == IF hit # {} THEN data[CHOOSE i \in hit : TRUE].value
                                  ELSE data[1].value
                  IN  IF stop_obj.kind # "map" THEN Raised("AttributeError")
                      ELSE Returned(FirstThree(stop_obj.calls))

----------------------------------------------------------------------------
(* Bounds and the inputs the model draws from.                             *)

\* iterations of the while loop one behaviour runs
MaxCycles == 3

\* the largest N of the "N min" texts
MaxEta == 101

\* the largest WALK_MIN and FAST_WINDOW_MIN tried
MaxWalk == 5

MinSuffix == <<" ", "m", "i", "n">>

MinText(n) == Str(n) \o MinSuffix

\* two decimal digits, zero-padded
Pad2(n) == <<Digits[(n \div 10) + 1], Digits[(n % 10) + 1]>>

\* HH:MM as the feed writes it
ClockText(h, m) == Pad2(h) \o <<":">> \o Pad2(m)

\* the time the request, the selection and the rendering may each take, in
\* milliseconds
Lags == {0, 1000}

StartClocks ==
    {DateTime(21, 54, 59, 0), DateTime(5, 29, 59, 500), DateTime(23, 58, 0, 0)}

Entry(key, value) == [key |-> key, value |-> value]

Feed(key, texts) ==
    Response("ok", Body("map", <<Entry(key, StopObj([i \in 1..Len(texts) |-> Call(texts[i])]))>>))

TransportFailures ==
    {Response(t, Body("none", << >>)) : t \in {"ConnectionError", "Timeout", "HTTPError"}}

InvalidJson == Response("ok", Body("invalid", << >>))

EmptyMapping == Response("ok", Body("map", << >>))

TopLevelList == Response("ok", Body("list", << >>))

StopNotMapping ==
    Response("ok", Body("map", <<Entry(STOP, [kind |-> "str", calls |-> << >>])>>))

CallNotMapping ==
    Response("ok", Body("map", <<Entry(STOP, StopObj(<<NotAMapping, Call(MinText(5))>>))>>))

ShapeFailures == {InvalidJson, EmptyMapping, TopLevelList, StopNotMapping, CallNotMapping}

GoodFeeds ==
    { Feed(STOP, <<MinText(5), MinText(21), MinText(2)>>),
      Feed(STOP, <<ClockText(22, 0), MinText(21)>>),
      Feed("other", <<MinText(3)>>),
      Feed(STOP, << >>) }

Responses == GoodFeeds \cup TransportFailures \cup ShapeFailures

\* what a failing call on the display driver raises
SinkErrors == {"OSError", "ValueError"}

----------------------------------------------------------------------------
(* main(), lines 410-447.                                                  *)

LoopPcs ==
    {"loop_top", "draw_quiet", "quiet_sleep", "quiet_init", "fetch", "select",
     "render", "schedule", "day_sleep", "err_sleep"}

NoFrame == [kind |-> "none", labels |-> << >>, emphasized |-> 0]

Advance(d) == clock' = (clock + d) % MsPerDay

Goto(p) == pc' = p /\ UNCHANGED <<sleep_s, exc, ended_by>>

\* time.sleep(s) is entered
GotoSleep(p, s) == pc' = p /\ sleep_s' = s /\ UNCHANGED <<exc, ended_by>>

Raise_no_request_handler(e, inner) ==
    IF inner /\ e = "ValueError"
    THEN GotoSleep("err_sleep", DAY_REFRESH)
    ELSE /\ pc' = "finally"
         /\ ended_by' = Some(e)
         /\ exc' = IF e = "KeyboardInterrupt" THEN None ELSE Some(e)
         /\ UNCHANGED sleep_s

\* An exception e leaves the statement at pc.  Inside the inner try (lines
\* 425-439) RequestException and ValueError go to their handlers, which sleep
\* DAY_REFRESH; anything else leaves the while loop: KeyboardInterrupt is
\* caught at line 441, any other class keeps propagating through the finally.
Raise(e, inner) ==
    IF inner /\ e \in {"RequestException", "ValueError"}
    THEN GotoSleep("err_sleep", DAY_REFRESH)
    ELSE /\ pc' = "finally"
         /\ ended_by' = Some(e)
         /\ exc' = IF e = "KeyboardInterrupt" THEN None ELSE Some(e)
         /\ UNCHANGED sleep_s

\* epd.display(...) is called
Displayed == [epd EXCEPT !.asleep_write = @ \/ epd.power = "asleep", !.last_call = "display"]

\* line 417-419
LoopTop ==
    /\ pc = "loop_top"
    /\ cycles < MaxCycles
    /\ cycles' = cycles + 1
    /\ now' = clock
    /\ quiet' = in_quiet_hours(clock)
    /\ renders' = 0
    /\ resp' = NoResponse
    /\ Goto(IF in_quiet_hours(clock) THEN "draw_quiet" ELSE "fetch")
    /\ UNCHANGED <<config, clock, calls3, catch_idx, eta_out, epd, frame>>

\* line 420, draw_quiet: the message is displayed, then the sink is put to sleep
DrawQuiet ==
    /\ pc = "draw_quiet"
    /\ \/ \E e \in SinkErrors :
            /\ epd' = Displayed
            /\ Raise(e, FALSE)
            /\ UNCHANGED <<frame, renders>>
       \/ \E e \in SinkErrors :
            /\ epd' = [Displayed EXCEPT !.last_call = "sleep"]
            /\ frame' = [kind |-> "quiet", labels |-> << >>, emphasized |-> 0]
            /\ renders' = renders + 1
            /\ Raise(e, FALSE)
       \/ /\ epd' = [Displayed EXCEPT !.last_call = "sleep", !.power = "asleep"]
          /\ frame' = [kind |-> "quiet", labels |-> << >>, emphasized |-> 0]
          /\ renders' = renders + 1
          /\ GotoSleep("quiet_sleep", QUIET_REFRESH)
    /\ UNCHANGED <<config, clock, now, quiet, resp, calls3, catch_idx, eta_out, cycles>>

\* line 421
QuietSleep ==
    /\ pc = "quiet_sleep"
    /\ Advance(sleep_s * 1000)
    /\ Goto("quiet_init")
    /\ UNCHANGED <<config, now, quiet, resp, calls3, catch_idx, eta_out, epd, frame,
                   renders, cycles>>

QuietInit_skipped ==
    /\ pc = "quiet_init"
    /\ Goto("loop_top")
    /\ UNCHANGED <<config, clock, now, quiet, resp, calls3, catch_idx, eta_out, epd,
                   frame, renders, cycles>>

\* lines 422-423
QuietInit ==
    /\ pc = "quiet_init"
    /\ \/ /\ epd' = [epd EXCEPT !.power = "awake", !.last_call = "init"]
          /\ Goto("loop_top")
       \/ \E e \in SinkErrors :
            /\ epd' = [epd EXCEPT !.last_call = "init"]
            /\ Raise(e, FALSE)
    /\ UNCHANGED <<config, clock, now, quiet, resp, calls3, catch_idx, eta_out, frame,
                   renders, cycles>>

\* line 426: the request is sent and the answer read
FetchCalls ==
    /\ pc = "fetch"
    /\ \E r \in Responses :
         /\ resp' = r
         /\ IF fetch_calls(r).raised # None
            THEN Raise(fetch_calls(r).raised[1], TRUE) /\ UNCHANGED calls3
            ELSE calls3' = fetch_calls(r).calls3 /\ Goto("select")
    /\ \E d \in Lags : Advance(d)
    /\ UNCHANGED <<config, now, quiet, catch_idx, eta_out, epd, frame, renders, cycles>>

\* line 427: minutes_only calls c.get on every slot
ChooseCatchable ==
    /\ pc = "select"
    /\ now' = clock
    /\ IF \E i \in 1..3 : calls3[i].kind # "map"
       THEN Raise("AttributeError", TRUE) /\ UNCHANGED catch_idx
       ELSE catch_idx' = choose_catchable(calls3, clock) /\ Goto("render")
    /\ \E d \in Lags : Advance(d)
    /\ UNCHANGED <<config, quiet, resp, calls3, eta_out, epd, frame, renders, cycles>>

\* draw_grid's three column texts, lines 340-342
GridFrame(t) ==
    [kind |-> "grid", labels |-> [i \in 1..3 |-> minutes_only(calls3[i], t)[1]],
     emphasized |-> catch_idx]

\* draw_list's three lines, lines 375-386
ListFrame ==
    [kind |-> "list", labels |-> [i \in 1..3 |-> calls3[i].display_time],
     emphasized |-> catch_idx]

\* lines 429-432: draw_list or draw_grid, each ending in epd.display
Render ==
    /\ pc = "render"
    /\ now' = clock
    /\ epd' = Displayed
    /\ \/ /\ frame' = IF MODE = "list" THEN ListFrame ELSE GridFrame(clock)
          /\ renders' = renders + 1
          /\ Goto("schedule")
       \/ \E e \in SinkErrors :
            /\ Raise(e, TRUE)
            /\ UNCHANGED <<frame, renders>>
    /\ \E d \in Lags : Advance(d)
    /\ UNCHANGED <<config, quiet, resp, calls3, catch_idx, eta_out, cycles>>

\* line 434, the argument: choose_sleep_seconds(calls3, catch_idx)
Schedule ==
    /\ pc = "schedule"
    /\ now' = clock
    /\ GotoSleep("day_sleep", choose_sleep_seconds(calls3, catch_idx, clock))
    /\ UNCHANGED <<config, clock, quiet, resp, calls3, catch_idx, eta_out, epd, frame,
                   renders, cycles>>

\* line 434, time.sleep
DaySleep ==
    /\ pc = "day_sleep"
    /\ Advance(sleep_s * 1000)
    /\ Goto("loop_top")
    /\ UNCHANGED <<config, now, quiet, resp, calls3, catch_idx, eta_out, epd, frame,
                   renders, cycles>>

\* lines 436-439, time.sleep(DAY_REFRESH) in either handler
ErrSleep ==
    /\ pc = "err_sleep"
    /\ Advance(sleep_s * 1000)
    /\ Goto("loop_top")
    /\ UNCHANGED <<config, now, quiet, resp, calls3, catch_idx, eta_out, epd, frame,
                   renders, cycles>>

\* SIGINT raises KeyboardInterrupt in whatever statement main is running
Interrupt ==
    /\ pc \in LoopPcs
    /\ Raise("KeyboardInterrupt", FALSE)
    /\ UNCHANGED <<config, clock, now, quiet, resp, calls3, catch_idx, eta_out, epd,
                   frame, renders, cycles>>

Finally_unguarded ==
    /\ pc = "finally"
    /\ pc' = "exited"
    /\ \/ epd' = [epd EXCEPT !.power = "asleep", !.last_call = "sleep"] /\ UNCHANGED exc
       \/ \E e \in SinkErrors : epd' = [epd EXCEPT !.last_call = "sleep"] /\ exc' = Some(e)
    /\ UNCHANGED <<config, clock, now, quiet, resp, calls3, catch_idx, eta_out, sleep_s,
                   ended_by, frame, renders, cycles>>

\* lines 443-447: epd.sleep() is tried and whatever it raises is dropped
Finally ==
    /\ pc = "finally"
    /\ pc' = "exited"
    /\ \/ epd' = [epd EXCEPT !.power = "asleep", !.last_call = "sleep"]
       \/ epd' = [epd EXCEPT !.last_call = "sleep"]
    /\ UNCHANGED <<config, clock, now, quiet, resp, calls3, catch_idx, eta_out, sleep_s,
                   exc, ended_by, frame, renders, cycles>>

----------------------------------------------------------------------------
(* The program: main() under the default configuration.                    *)

\* main's state at line 416: the sink initialised, nothing read or drawn yet
InitMain ==
    /\ now = clock
    /\ quiet = FALSE
    /\ resp = NoResponse
    /\ catch_idx = 0
    /\ eta_out = <<Dashes, None>>
    /\ sleep_s = 0
    /\ exc = None
    /\ ended_by = None
    /\ epd = [power |-> "awake", asleep_write |-> FALSE, last_call |-> "init"]
    /\ frame = NoFrame
    /\ renders = 0
    /\ cycles = 0

InitDefaults ==
    /\ WALK_MIN = DEFAULT_WALK_MIN
    /\ FAST_WINDOW_MIN = DEFAULT_FAST_WINDOW_MIN
    /\ QUIET_START = DEFAULT_QUIET_START
    /\ QUIET_END = DEFAULT_QUIET_END

Init ==
    /\ InitDefaults
    /\ MODE \in {"grid", "list"}
    /\ clock \in StartClocks
    /\ pc = "loop_top"
    /\ calls3 = <<EmptyCall, EmptyCall, EmptyCall>>
    /\ InitMain

Next ==
    \/ LoopTop
    \/ DrawQuiet
    \/ QuietSleep
    \/ QuietInit
    \/ FetchCalls
    \/ ChooseCatchable
    \/ Render
    \/ Schedule
    \/ DaySleep
    \/ ErrSleep
    \/ Interrupt
    \/ Finally

Spec == Init /\ [][Next]_vars

----------------------------------------------------------------------------
(* The quiet-hours gate alone: one pass through the head of the loop under *)
(* every configured window and every hour.                                 *)

Hours == 0..23

InitGate ==
    /\ WALK_MIN = DEFAULT_WALK_MIN
    /\ FAST_WINDOW_MIN = DEFAULT_FAST_WINDOW_MIN
    /\ QUIET_START \in Hours
    /\ QUIET_END \in Hours
    /\ MODE = "grid"
    /\ clock \in {DateTime(h, 30, 0, 0) : h \in Hours}
    /\ pc = "loop_top"
    /\ calls3 = <<EmptyCall, EmptyCall, EmptyCall>>
    /\ InitMain

NextGate == LoopTop

SpecGate == InitGate /\ [][NextGate]_vars

----------------------------------------------------------------------------
(* The normaliser alone: minutes_only on one call, as draw_grid (line 342) *)
(* and choose_catchable (line 148) call it.                                *)

Minutes == 0..59

\* "N min" as the feed writes it, and spellings parse_minutes reads the same
WellFormed(n) ==
    { MinText(n),
      Str(n) \o <<" ", "m", "i", "n", "s">>,
      <<" ">> \o Str(n) \o <<" ", "M", "i", "n", " ">> }

ClockTexts == {ClockText(h, m) : h \in Hours, m \in Minutes}

\* texts that are neither "N min" nor a 24-hour HH:MM
Unparseable ==
    { << >>, <<" ">>, <<" ", " ">>,
      <<"d", "u", "e">>,
      <<"5">>,
      <<"5", "m", "i", "n">>,
      <<"x", " ", "m", "i", "n">>,
      <<"m", "i", "n">>,
      <<"2", "4", ":", "0", "0">>,
      <<"1", "2", ":", "6", "0">>,
      <<"1", ":", "2", ":", "3">>,
      <<"a", "b", ":", "c", "d">>,
      <<":">>,
      <<"1", "2", ":", "3", "0", " ", "m", "i", "n">> }

EtaTexts ==
    UNION {WellFormed(n) : n \in 0..MaxEta} \cup ClockTexts \cup Unparseable

EtaClocks ==
    {DateTime(h, m, s, ms) : h \in {0, 12, 23}, m \in {0, 1, 30, 59}, s \in {0, 59},
                             ms \in {0, 500}}

\* txt, eta = minutes_only(call, now)
Normalize ==
    /\ pc = "normalize"
    /\ now' = clock
    /\ eta_out' = minutes_only(calls3[1], clock)
    /\ pc' = "normalized"
    /\ UNCHANGED <<config, clock, quiet, resp, calls3, catch_idx, sleep_s, exc, ended_by,
                   epd, frame, renders, cycles>>

InitEta ==
    /\ InitDefaults
    /\ MODE = "grid"
    /\ clock \in EtaClocks
    /\ pc = "normalize"
    /\ \E text \in EtaTexts : calls3 = <<Call(text), EmptyCall, EmptyCall>>
    /\ InitMain

NextEta == Normalize

SpecEta == InitEta /\ [][NextEta]_vars

----------------------------------------------------------------------------
(* The selector and the scheduler: the tail of one DAY cycle, from the     *)
(* fetched calls on, under every walk time and board drawn below.          *)

BoardTexts ==
    {<< >>, MinText(2), MinText(3), MinText(4), MinText(5), MinText(21), ClockText(22, 0)}

BoardClocks == {DateTime(21, 54, 59, 0), DateTime(22, 0, 0, 500)}

InitSelect ==
    /\ WALK_MIN \in 0..MaxWalk
    /\ FAST_WINDOW_MIN \in {4, DEFAULT_FAST_WINDOW_MIN}
    /\ QUIET_START = DEFAULT_QUIET_START
    /\ QUIET_END = DEFAULT_QUIET_END
    /\ MODE = "grid"
    /\ clock \in BoardClocks
    /\ pc = "select"
    /\ \E a \in BoardTexts, b \in BoardTexts, c \in BoardTexts :
         calls3 = <<Call(a), Call(b), Call(c)>>
    /\ InitMain

NextSelect == ChooseCatchable \/ Render \/ Schedule

SpecSelect == InitSelect /\ [][NextSelect]_vars

----------------------------------------------------------------------------
(* Properties.                                                             *)

\* the normalised minutes of slot i (0-based) at the time the selector or the
\* scheduler last read the clock
EtaAt(i) == minutes_only(calls3[i + 1], now)[2]

Qualifying == {i \in 0..2 : EtaAt(i) # None /\ EtaAt(i)[1] >= WALK_MIN}

\* C1: once choose_catchable has returned, its index is in {0,1,2}; if no call
\* has a defined minutes value >= WALK_MIN it is exactly 0; otherwise it is the
\* lowest index among the qualifying calls of minimum minutes (so it is never
\* a call below WALK_MIN while some call qualifies).
C1_SelectorContract ==
    pc = "render" =>
        /\ catch_idx \in 0..2
        /\ Qualifying = {} => catch_idx = 0
        /\ Qualifying # {} =>
             /\ catch_idx \in Qualifying
             /\ \A j \in Qualifying : EtaAt(catch_idx)[1] <= EtaAt(j)[1]
             /\ \A j \in Qualifying : EtaAt(j)[1] = EtaAt(catch_idx)[1] => catch_idx <= j

\* slot 0 is below the walk time and slots 1 and 2 tie for the minimum
C1_Witness ==
    /\ pc = "render"
    /\ EtaAt(0) # None /\ EtaAt(0)[1] < WALK_MIN
    /\ Qualifying = {1, 2}
    /\ EtaAt(1) = EtaAt(2)
    /\ catch_idx = 1

\* C2: once choose_sleep_seconds has returned, the delay is FAST_REFRESH if and
\* only if the emphasized call's minutes value is defined and <= FAST_WINDOW_MIN,
\* and DAY_REFRESH in every other case, an undefined value included.
C2_SchedulerContract ==
    pc = "day_sleep" =>
        /\ sleep_s = FAST_REFRESH <=>
             (EtaAt(catch_idx) # None /\ EtaAt(catch_idx)[1] <= FAST_WINDOW_MIN)
        /\ sleep_s # FAST_REFRESH => sleep_s = DAY_REFRESH

\* the fallback index 0 is unparseable and the delay is DAY_REFRESH
C2_Witness ==
    /\ pc = "day_sleep"
    /\ catch_idx = 0
    /\ Qualifying = {}
    /\ EtaAt(0) = None
    /\ sleep_s = DAY_REFRESH

\* C3: the gate reports NIGHT iff (start < end and start <= hour < end) or
\* (start >= end and (hour >= start or hour < end)), and main takes the night
\* branch exactly then; with start 22 and end 6, hour 23 is NIGHT and hours 6
\* and 21 are DAY.
C3_GateContract ==
    pc \in {"draw_quiet", "fetch"} =>
        LET h == Hour(now)
            night == \/ QUIET_START < QUIET_END /\ QUIET_START <= h /\ h < QUIET_END
                     \/ QUIET_START >= QUIET_END /\ (h >= QUIET_START \/ h < QUIET_END)
        IN  /\ quiet <=> night
            /\ pc = "draw_quiet" <=> night
            /\ (QUIET_START = 22 /\ QUIET_END = 6) =>
                 /\ h = 23 => quiet
                 /\ h = 6 => ~quiet
                 /\ h = 21 => ~quiet

\* the window wraps midnight and the hour is 23
C3_Witness ==
    /\ pc = "draw_quiet"
    /\ QUIET_START = 22 /\ QUIET_END = 6
    /\ Hour(now) = 23
    /\ quiet

\* C4: for an HH:MM text the normaliser returns a minutes value >= 0 that is
\* the whole minutes from now to the next instant the clock shows HH:MM:00,
\* which is tomorrow's when today's already lies before now.
C4_ClockContract ==
    pc = "normalized" =>
        LET text == calls3[1].display_time
        IN  \A h \in Hours :
              (Len(text) = 5 /\ SubSeq(text, 1, 2) = Pad2(h)) =>
                \A m \in Minutes :
                  text = ClockText(h, m) =>
                    LET target == DateTime(h, m, 0, 0)
                        wait == (target - now) % MsPerDay
                    IN  /\ eta_out[2] = Some(wait \div MsPerMinute)
                        /\ eta_out[2][1] >= 0
                        /\ target < now =>
                             eta_out[2][1] = ((target + MsPerDay) - now) \div MsPerMinute
                        /\ target >= now =>
                             eta_out[2][1] = (target - now) \div MsPerMinute

\* 00:00 asked half a second after 23:59:59: today's 00:00 has passed
C4_Witness ==
    /\ pc = "normalized"
    /\ calls3[1].display_time = ClockText(0, 0)
    /\ now = DateTime(23, 59, 59, 500)
    /\ eta_out[2] = Some(0)

\* C5: for a well-formed "N min" the normaliser returns minutes N unclamped,
\* with label str(N) for 0 <= N <= 99 and "99+" above; the label is never
\* empty; an empty, blank or otherwise unparseable text gives ("--", None).
C5_MinutesContract ==
    pc = "normalized" =>
        /\ eta_out[1] # << >>
        /\ \A n \in 0..MaxEta :
             calls3[1].display_time \in WellFormed(n) =>
                 eta_out = <<IF n > 99 THEN <<"9", "9", "+">> ELSE Str(n), Some(n)>>
        /\ calls3[1].display_time \in Unparseable => eta_out = <<Dashes, None>>

\* "100 min": the label saturates and the number does not
C5_Witness ==
    /\ pc = "normalized"
    /\ calls3[1].display_time = MinText(100)
    /\ eta_out = <<(<<"9", "9", "+">>), Some(100)>>

\* C6: epd.display is never called while the sink is in its low-power state:
\* whenever main is about to render (night message or departures) the sink has
\* been initialised since its last sleep.
C6_NoWriteWhileAsleep ==
    /\ ~epd.asleep_write
    /\ pc \in {"draw_quiet", "render"} => epd.power = "awake"

\* the first departures render after a night cycle is due: the last frame
\* shown is the night message, whose draw put the sink to sleep, and the sink
\* has been initialised since
C6_Witness ==
    /\ pc = "render"
    /\ frame.kind = "quiet"
    /\ epd.last_call = "init"
    /\ epd.power = "awake"

\* C7: when KeyboardInterrupt ended the loop, main has called epd.sleep() by
\* the time it exits, and it exits with no exception, also when that call
\* failed.
C7_InterruptShutdown ==
    (pc = "exited" /\ ended_by = Some("KeyboardInterrupt")) =>
        epd.last_call = "sleep" /\ exc = None

\* interrupted while awake, the shutdown sleep failed, the exit is clean
C7_Witness ==
    /\ pc = "exited"
    /\ ended_by = Some("KeyboardInterrupt")
    /\ epd.last_call = "sleep"
    /\ epd.power = "awake"
    /\ exc = None

TransportFailed == resp.transport \in {"ConnectionError", "Timeout", "HTTPError"}

\* the clock after time.sleep(s)
After(s) == (clock + s * 1000) % MsPerDay

\* C8: in a cycle whose fetch failed at the transport level nothing is
\* rendered, main sleeps DAY_REFRESH seconds and is then at the head of the
\* loop; only KeyboardInterrupt ends the loop in such a cycle.
C8_TransportRecovery ==
    /\ [](TransportFailed =>
            /\ renders = 0
            /\ \/ pc = "err_sleep" /\ sleep_s = DAY_REFRESH
               \/ pc = "loop_top"
               \/ pc \in {"finally", "exited"} /\ ended_by = Some("KeyboardInterrupt"))
    /\ [][(TransportFailed /\ pc = "err_sleep") =>
            \/ pc' = "loop_top" /\ clock' = After(DAY_REFRESH)
            \/ pc' = "finally" /\ ended_by' = Some("KeyboardInterrupt")]_vars

\* the wait after a timeout is over and the next cycle is due
C8_Witness ==
    /\ resp.transport = "Timeout"
    /\ pc = "loop_top"
    /\ renders = 0
    /\ cycles < MaxCycles
    /\ ended_by = None

ParseFailed ==
    /\ resp.transport = "ok"
    /\ \/ fetch_calls(resp).raised # None
       \/ \E i \in 1..3 : fetch_calls(resp).calls3[i].kind # "map"

\* C9: in a cycle whose response is not JSON or not of the expected shape
\* nothing is rendered, main sleeps DAY_REFRESH seconds and is then at the
\* head of the loop; only KeyboardInterrupt ends the loop in such a cycle.
C9_ParseRecovery ==
    ParseFailed =>
        /\ renders = 0
        /\ \/ pc = "select"
           \/ pc = "err_sleep" /\ sleep_s = DAY_REFRESH
           \/ pc = "loop_top"
           \/ pc \in {"finally", "exited"} /\ ended_by = Some("KeyboardInterrupt")

\* C10: no runtime error ends the poll loop; in particular an exception the
\* display sink raises (in epd.display, or in the sleep and init around the
\* night message) is never the one that ended it.
C10_SinkFailureSurvived ==
    \A e \in SinkErrors : ended_by # Some(e)

\* The step in which draw_grid builds the frame: before it `now` is the clock
\* reading of choose_catchable, after it the clock reading of draw_grid.
GridRendered == pc = "render" /\ pc' = "schedule" /\ MODE = "grid"

\* The step in which choose_sleep_seconds runs after a grid frame: before it
\* `now` is the clock reading of draw_grid, after it that of the scheduler.
GridScheduled == pc = "schedule" /\ pc' = "day_sleep" /\ frame.kind = "grid"

\* Call i's minutes as a reader that looked at the clock at t computes them.
EtaRead(i, t) == minutes_only(calls3[i + 1], t)[2]

\* The calls that qualify as catchable for a reader of the clock at t.
QualifyingAt(t) ==
    {i \in 0..2 : EtaRead(i, t) # None /\ EtaRead(i, t)[1] >= WALK_MIN}

\* C11: within one DAY cycle the selector, the renderer and the scheduler
\* agree on the emphasized call's minutes although each reads the clock on
\* its own: when the selector chose index i because call i's minutes was
\* >= WALK_MIN, the emphasized column of the frame shows that same value,
\* the scheduler compares that same value against FAST_WINDOW_MIN, and so the
\* emphasized column is never below WALK_MIN while another call qualifies.
C11_ReadersAgree ==
    [][ /\ (GridRendered /\ catch_idx \in Qualifying) =>
              /\ frame'.labels[catch_idx + 1] = Label(EtaAt(catch_idx)[1])
              /\ QualifyingAt(now') # {} => catch_idx \in QualifyingAt(now')
        /\ (GridScheduled /\ catch_idx \in QualifyingAt(now)) =>
              /\ EtaRead(catch_idx, now') = EtaAt(catch_idx)
              /\ sleep_s' = IF EtaAt(catch_idx)[1] <= FAST_WINDOW_MIN
                            THEN FAST_REFRESH ELSE DAY_REFRESH
      ]_vars

=============================================================================
